---- MODULE Spec2Model ----
(***************************************************************************)
(* Weather-notification bot: the user registry (database.py), the chat     *)
(* handlers that write to it (weather_bot.py) and the notification         *)
(* scheduler that reads it.                                                *)
(*                                                                         *)
(* Text values (cities, times, report types, display names) are sequences  *)
(* of one-character strings, so that strip(), split() and the time regex   *)
(* are computed character by character.  SQL NULL / Python None is NULL.   *)
(***************************************************************************)
EXTENDS Integers, Sequences, FiniteSets, TLC

VARIABLES
    users,      \* table users: user_id -> [display, city, is_active, updated_at]
    ns,         \* table notification_settings: user_id -> preferences
    fsm,        \* aiogram FSM state of each chat
    last,       \* the last call made and what it returned
    clock,      \* wall clock, in minutes since midnight
    running,    \* per bot process: its scheduler is started
    pending,    \* per bot process: its timer fired for the current minute
    sent,       \* <<user_id, minute>> -> scheduled deliveries made
    missed,     \* <<user_id, minute>> that were due, over, and never delivered
    req,        \* weather requests: the position of the handler (hpc) and of its
                \* advisory task (apc), what the gateway function returned to
                \* the handler (info) and to the task (data)
    lookup,     \* the coroutine inside a (synchronous) Weather Gateway call
    out,        \* the messages sent to the chats, in order
    proc,       \* the bot process: where run_bot.py / main() stands, its
                \* environment, its polling task, the cleanup steps it ran and
                \* its exit status
    pool,       \* the connection pool of the registry: its state and the
                \* number of connections checked out
    genai       \* ai_recommendations: the global _client, the clients that
                \* were constructed and the executor threads

vars == <<users, ns, fsm, last, clock, running, pending, sent, missed,
          req, lookup, out, proc, pool, genai>>

\* the process, the pool and the advisory client
sysVars == <<proc, pool, genai>>

\* the weather requests in progress and the messages sent
gwVars == <<req, lookup, out>>

\* the scheduler's state and the deliveries it made
schedVars == <<clock, running, pending, sent, missed>>

\* what a registry call leaves alone
nonRegistry == <<fsm, clock, running, pending, sent, missed, req, lookup, out,
                 sysVars>>

----------------------------------------------------------------------------
(* Bounds and input sets                                                   *)

MaxUsers == 2
UserIds == 1..MaxUsers

\* bot processes alive at once (the old and the new one of a deployment)
MaxInstances == 2

\* weather requests (one per chat) in progress at once
MaxRequests == 2
Requests == 1..MaxRequests
Instances == 1..MaxInstances

\* minutes the clock advances
MaxMinutes == 3
FirstMinute == 7 * 60 + 59
Window == FirstMinute..(FirstMinute + MaxMinutes)

NULL == <<"NULL">>

Moscow == <<"M","s","k">>
Paris  == <<"P","a","r">>
Cities == {Moscow, Paris}

Alice  == <<"a","l","i","c","e">>
Alice2 == <<"a","l","i","c","e","2">>
Displays == {Alice, Alice2}

T0800 == <<"0","8",":","0","0">>
T2000 == <<"2","0",":","0","0">>
T0805 == <<"0","8",":","0","5">>

brief    == <<"b","r","i","e","f">>
detailed == <<"d","e","t","a","i","l","e","d">>

----------------------------------------------------------------------------
(* Schema (init_database)                                                  *)

\* VARCHAR(5) of morning_time / evening_time
TimeColumnLen == 5
\* VARCHAR(20) of weather_type
TypeColumnLen == 20

\* mutant: the column default of send_evening is TRUE
DefaultSettings_EveningOn ==
    [morning_time |-> T0800, evening_time |-> T2000,
     send_morning |-> TRUE, send_evening |-> TRUE, weather_type |-> brief]

\* column defaults of notification_settings
DefaultSettings ==
    [morning_time |-> T0800, evening_time |-> T2000,
     send_morning |-> TRUE, send_evening |-> FALSE, weather_type |-> brief]

PrefKeys == {"morning_time", "evening_time", "send_morning", "send_evening",
             "weather_type"}

\* the points of a registry call at which the storage layer can fail
FailPoints == {"none", "getconn", "cursor", "execute1", "execute2", "commit"}

\* a table with row r stored under key k (INSERT, or the row replaced)
Put(T, k, r) == [x \in (DOMAIN T) \cup {k} |-> IF x = k THEN r ELSE T[x]]

\* what the except-branch of a mutating operation gives back: the transaction
\* is rolled back; conn.rollback() itself raises on a lost connection, and
\* without a connection (getconn failed) there is nothing to roll back.
Failure(U, N, at, lost) ==
    [users |-> U, ns |-> N,
     ret |-> IF lost /\ at # "getconn" THEN "Raise" ELSE "False"]

----------------------------------------------------------------------------
(* Registry operations (class UserDatabase).  CURRENT_TIMESTAMP is the     *)
(* wall clock.                                                             *)

\* mutant: each INSERT is committed as it is executed (autocommit)
add_user_autocommit(U, N, uid, display, city, at, lost) ==
    LET row == IF uid \in DOMAIN U
               THEN [U[uid] EXCEPT !.display = display, !.city = city,
                                   !.updated_at = clock]
               ELSE [display |-> display, city |-> city, is_active |-> TRUE,
                     updated_at |-> clock]
        U1  == Put(U, uid, row)
        N1  == IF uid \in DOMAIN N THEN N ELSE Put(N, uid, DefaultSettings)
    IN  IF at \in {"getconn", "cursor", "execute1"} THEN Failure(U, N, at, lost)
        ELSE IF at = "execute2" THEN Failure(U1, N, at, lost)
        ELSE IF at = "commit" THEN Failure(U1, N1, at, lost)
        ELSE [users |-> U1, ns |-> N1, ret |-> "True"]

\* mutant: the upsert makes the row active again
add_user_reactivates(U, N, uid, display, city, at, lost) ==
    LET row == [display |-> display, city |-> city, is_active |-> TRUE,
                updated_at |-> clock]
        U1  == Put(U, uid, row)
        N1  == IF uid \in DOMAIN N THEN N ELSE Put(N, uid, DefaultSettings)
    IN  IF at # "none" THEN Failure(U, N, at, lost)
        ELSE [users |-> U1, ns |-> N1, ret |-> "True"]

add_user(U, N, uid, display, city, at, lost) ==
    LET row == IF uid \in DOMAIN U
               THEN [U[uid] EXCEPT !.display = display, !.city = city,
                                   !.updated_at = clock]
               ELSE [display |-> display, city |-> city, is_active |-> TRUE,
                     updated_at |-> clock]
        U1  == Put(U, uid, row)
        N1  == IF uid \in DOMAIN N THEN N ELSE Put(N, uid, DefaultSettings)
    IN  IF at # "none" THEN Failure(U, N, at, lost)
        ELSE [users |-> U1, ns |-> N1, ret |-> "True"]

update_user_city(U, N, uid, city, at, lost) ==
    IF at # "none" THEN Failure(U, N, at, lost)
    ELSE IF uid \in DOMAIN U
         THEN [users |-> [U EXCEPT ![uid].city = city,
                                   ![uid].updated_at = clock],
               ns |-> N, ret |-> "True"]
         ELSE [users |-> U, ns |-> N, ret |-> "False"]

\* the joined row of SELECT u.*, ns.* FROM users u LEFT JOIN notification_settings ns
JoinRow(U, N, uid) ==
    LET p == IF uid \in DOMAIN N THEN N[uid]
             ELSE [morning_time |-> NULL, evening_time |-> NULL,
                   send_morning |-> NULL, send_evening |-> NULL,
                   weather_type |-> NULL]
    IN  [user_id |-> uid, display |-> U[uid].display, city |-> U[uid].city,
         is_active |-> U[uid].is_active, updated_at |-> U[uid].updated_at,
         morning_time |-> p.morning_time, evening_time |-> p.evening_time,
         send_morning |-> p.send_morning, send_evening |-> p.send_evening,
         weather_type |-> p.weather_type]

\* None is <<>>, a found row is <<row>>
get_user(U, N, uid, at) ==
    IF at # "none" \/ uid \notin DOMAIN U THEN <<>> ELSE <<JoinRow(U, N, uid)>>

\* the keys of kwargs that go into the UPDATE of notification_settings
UpdateFields(kw) == (DOMAIN kw) \cap PrefKeys

\* a value the column cannot hold makes the UPDATE raise (DataError)
TooLong(kw) ==
    \/ \E k \in (DOMAIN kw) \cap {"morning_time", "evening_time"} :
           Len(kw[k]) > TimeColumnLen
    \/ "weather_type" \in DOMAIN kw /\ Len(kw["weather_type"]) > TypeColumnLen

\* the failure point is one this call passes through
Reaches(kw, at) ==
    /\ at = "execute1" => "city" \in DOMAIN kw
    /\ at = "execute2" => UpdateFields(kw) # {}

\* mutant: each UPDATE is committed as it is executed (autocommit)
update_notification_settings_autocommit(U, N, uid, kw, at, lost) ==
    LET U1 == IF "city" \in DOMAIN kw /\ uid \in DOMAIN U
              THEN [U EXCEPT ![uid].city = kw["city"],
                             ![uid].updated_at = clock] ELSE U
        N1 == IF uid \in DOMAIN N
              THEN [N EXCEPT ![uid] =
                      [k \in DOMAIN N[uid] |->
                          IF k \in UpdateFields(kw) THEN kw[k] ELSE N[uid][k]]]
              ELSE N
    IN  IF at \in {"getconn", "cursor"} THEN Failure(U, N, at, lost)
        ELSE IF "city" \in DOMAIN kw /\ at = "execute1" THEN Failure(U, N, at, lost)
        ELSE IF UpdateFields(kw) # {} /\ (at = "execute2" \/ TooLong(kw))
             THEN Failure(U1, N, "execute2", lost)
        ELSE IF at = "commit" THEN Failure(U1, N1, at, lost)
        ELSE [users |-> U1, ns |-> N1, ret |-> "True"]

\* mutant: every key of kwargs that names a column is written
update_notification_settings_anykey(U, N, uid, kw, at, lost) ==
    LET U1 == IF uid \in DOMAIN U
              THEN [U EXCEPT ![uid] =
                      [k \in DOMAIN U[uid] |->
                          IF k \in DOMAIN kw THEN kw[k]
                          ELSE IF k = "updated_at" /\ "city" \in DOMAIN kw THEN clock
                          ELSE U[uid][k]]]
              ELSE U
        N1 == IF uid \in DOMAIN N
              THEN [N EXCEPT ![uid] =
                      [k \in DOMAIN N[uid] |->
                          IF k \in UpdateFields(kw) THEN kw[k] ELSE N[uid][k]]]
              ELSE N
    IN  IF at \in {"getconn", "cursor"} THEN Failure(U, N, at, lost)
        ELSE IF "city" \in DOMAIN kw /\ at = "execute1" THEN Failure(U, N, at, lost)
        ELSE IF UpdateFields(kw) # {} /\ (at = "execute2" \/ TooLong(kw))
             THEN Failure(U, N, "execute2", lost)
        ELSE IF at = "commit" THEN Failure(U, N, at, lost)
        ELSE [users |-> U1, ns |-> N1, ret |-> "True"]

update_notification_settings(U, N, uid, kw, at, lost) ==
    LET U1 == IF "city" \in DOMAIN kw /\ uid \in DOMAIN U
              THEN [U EXCEPT ![uid].city = kw["city"],
                             ![uid].updated_at = clock] ELSE U
        N1 == IF uid \in DOMAIN N
              THEN [N EXCEPT ![uid] =
                      [k \in DOMAIN N[uid] |->
                          IF k \in UpdateFields(kw) THEN kw[k] ELSE N[uid][k]]]
              ELSE N
    IN  IF at \in {"getconn", "cursor"} THEN Failure(U, N, at, lost)
        ELSE IF "city" \in DOMAIN kw /\ at = "execute1" THEN Failure(U, N, at, lost)
        ELSE IF UpdateFields(kw) # {} /\ (at = "execute2" \/ TooLong(kw))
             THEN Failure(U, N, "execute2", lost)
        ELSE IF at = "commit" THEN Failure(U, N, at, lost)
        ELSE [users |-> U1, ns |-> N1, ret |-> "True"]

\* mutant: the WHERE clause without u.is_active = TRUE
DueCondition_AnyActivity(U, N, uid, t) ==
    /\ U[uid].city # NULL
    /\ uid \in DOMAIN N
    /\ \/ N[uid].send_morning /\ N[uid].morning_time = t
       \/ N[uid].send_evening /\ N[uid].evening_time = t

\* mutant: the WHERE clause without the evening alternative
DueCondition_MorningOnly(U, N, uid, t) ==
    /\ U[uid].is_active
    /\ U[uid].city # NULL
    /\ uid \in DOMAIN N
    /\ N[uid].send_morning /\ N[uid].morning_time = t

\* WHERE clause of get_users_for_notification for one row of users
DueCondition(U, N, uid, t) ==
    /\ U[uid].is_active
    /\ U[uid].city # NULL
    /\ uid \in DOMAIN N
    /\ \/ N[uid].send_morning /\ N[uid].morning_time = t
       \/ N[uid].send_evening /\ N[uid].evening_time = t

RECURSIVE SelectDue(_, _, _, _)
SelectDue(U, N, t, uid) ==
    IF uid > MaxUsers THEN <<>>
    ELSE (IF uid \in DOMAIN U /\ DueCondition(U, N, uid, t)
          THEN <<JoinRow(U, N, uid)>> ELSE <<>>) \o SelectDue(U, N, t, uid + 1)

\* mutant: one SELECT per slot, the two results appended (UNION ALL)
RECURSIVE SelectSlot(_, _, _, _, _)
SelectSlot(U, N, t, slot, uid) ==
    IF uid > MaxUsers THEN <<>>
    ELSE (IF /\ uid \in DOMAIN U /\ uid \in DOMAIN N
             /\ U[uid].is_active /\ U[uid].city # NULL
             /\ IF slot = "morning"
                THEN N[uid].send_morning /\ N[uid].morning_time = t
                ELSE N[uid].send_evening /\ N[uid].evening_time = t
          THEN <<JoinRow(U, N, uid)>> ELSE <<>>)
         \o SelectSlot(U, N, t, slot, uid + 1)

get_users_for_notification_per_slot(U, N, t, at) ==
    IF at # "none" THEN <<>>
    ELSE SelectSlot(U, N, t, "morning", 1) \o SelectSlot(U, N, t, "evening", 1)

get_users_for_notification(U, N, t, at) ==
    IF at # "none" THEN <<>> ELSE SelectDue(U, N, t, 1)

RECURSIVE SelectActive(_, _, _)
SelectActive(U, N, uid) ==
    IF uid > MaxUsers THEN <<>>
    ELSE (IF uid \in DOMAIN U /\ U[uid].is_active /\ U[uid].city # NULL
          THEN <<JoinRow(U, N, uid)>> ELSE <<>>) \o SelectActive(U, N, uid + 1)

get_all_active_users(U, N, at) ==
    IF at # "none" THEN <<>> ELSE SelectActive(U, N, 1)

\* mutant: the row is deleted instead of flagged (the settings row cascades)
deactivate_user_delete(U, N, uid, at, lost) ==
    IF at # "none" THEN Failure(U, N, at, lost)
    ELSE IF uid \in DOMAIN U
         THEN [users |-> [x \in (DOMAIN U) \ {uid} |-> U[x]],
               ns |-> [x \in (DOMAIN N) \ {uid} |-> N[x]], ret |-> "True"]
         ELSE [users |-> U, ns |-> N, ret |-> "False"]

deactivate_user(U, N, uid, at, lost) ==
    IF at # "none" THEN Failure(U, N, at, lost)
    ELSE IF uid \in DOMAIN U
         THEN [users |-> [U EXCEPT ![uid].is_active = FALSE,
                                   ![uid].updated_at = clock],
               ns |-> N, ret |-> "True"]
         ELSE [users |-> U, ns |-> N, ret |-> "False"]

----------------------------------------------------------------------------
(* Initial state: the tables exist and are empty, every chat is idle       *)

EmptyTable == [x \in {} |-> NULL]

\* how the storage layer behaved during a call
FailKind(at, lost) == IF at = "none" THEN "none" ELSE IF lost THEN "lost" ELSE "error"

NoCall == [op |-> "none", uid |-> 0, args |-> NULL, fail |-> "none", ret |-> "None"]

\* no bot process has started its scheduler, nothing was delivered
SchedulerIdle ==
    /\ clock = FirstMinute
    /\ running = [i \in Instances |-> FALSE]
    /\ pending = [i \in Instances |-> FALSE]
    /\ sent = [k \in UserIds \X Window |-> 0]
    /\ missed = {}

\* the executor threads of the event loop that run the generator
MaxThreads == 2
Threads == 1..MaxThreads

\* run_bot.py was started: nothing is imported yet
NoProcess(db, token) ==
    [pc |-> "import", db |-> db, token |-> token, polling |-> "none",
     signalled |-> FALSE, call |-> "none", cleanup |-> <<>>, late |-> FALSE,
     exit |-> "none"]

\* a process inside main(), polling
Serving == [NoProcess(TRUE, TRUE) EXCEPT !.pc = "wait", !.polling = "running"]

\* SimpleConnectionPool(1, 10, url): open, no connection checked out
PoolOpen == [state |-> "open", used |-> 0]

\* _client = None, no thread inside get_weather_recommendations
NoClient(key) ==
    [client |-> 0, built |-> 0, key |-> key,
     thr |-> [t \in Threads |-> [pc |-> "idle", local |-> 0, used |-> 0]]]

\* the process serves, nothing of it is observed
MainIdle ==
    /\ proc = Serving
    /\ pool = PoolOpen
    /\ genai = NoClient(TRUE)

\* a request not made yet
NoRequest ==
    [cmd |-> "none", city |-> NULL, hpc |-> "none", typing |-> "none",
     fn |-> "none", info |-> "none", apc |-> "none", data |-> "none",
     gen |-> "none", rec |-> "none"]

\* no weather request was made, nothing was sent
GatewayIdle ==
    /\ req = [r \in Requests |-> NoRequest]
    /\ lookup = <<>>
    /\ out = <<>>

Init ==
    /\ users = EmptyTable
    /\ ns = EmptyTable
    /\ fsm = [c \in UserIds |-> "idle"]
    /\ last = NoCall
    /\ SchedulerIdle
    /\ GatewayIdle
    /\ MainIdle

----------------------------------------------------------------------------
(* The registry called directly, with any arguments                        *)

\* user 1 is called with every argument; the other users are only added
\* with a city and deactivated, so they keep the default preferences
Configurers == {1}

CitiesOf(uid) == IF uid \in Configurers THEN Cities \cup {NULL} ELSE {Moscow}

\* the ways a call can fail: where, and whether the connection was lost
\* (a lost connection is noticed by the statement that uses it)
Fails(points) ==
    {<<"none", FALSE>>} \cup
    {<<a, l>> \in (points \ {"none"}) \X BOOLEAN :
        l => a \in {"execute1", "execute2"}}

WritePoints == {"none", "getconn", "execute1", "commit"}
AddPoints   == {"none", "getconn", "execute1", "execute2", "commit"}
ReadPoints  == {"none", "getconn", "execute1"}
SettingsPoints == {"none", "getconn", "execute1", "execute2", "commit"}

\* "08:00:00" does not fit VARCHAR(5)
T080000 == <<"0","8",":","0","0",":","0","0">>

RegTimes == {T0800, T2000}

KwargsSet ==
    {[morning_time |-> t] : t \in RegTimes}
    \cup {[evening_time |-> t] : t \in RegTimes}
    \cup {[send_morning |-> b] : b \in BOOLEAN}
    \cup {[send_evening |-> b] : b \in BOOLEAN}
    \cup {[weather_type |-> w] : w \in {brief, detailed}}
    \cup {[city |-> Paris, evening_time |-> T0800, send_evening |-> TRUE],
          [city |-> Moscow, weather_type |-> detailed, timezone |-> Paris],
          [city |-> Paris, morning_time |-> T080000],
          [timezone |-> Paris, is_active |-> TRUE]}

Commit(r, op, uid, args, at, lost) ==
    /\ users' = r.users
    /\ ns' = r.ns
    /\ last' = [op |-> op, uid |-> uid, args |-> args,
                fail |-> FailKind(at, lost), ret |-> r.ret]
    /\ UNCHANGED nonRegistry

AddUser(uid, display, city, at, lost) ==
    Commit(add_user(users, ns, uid, display, city, at, lost),
           "add_user", uid, [display |-> display, city |-> city], at, lost)

UpdateUserCity(uid, city, at, lost) ==
    Commit(update_user_city(users, ns, uid, city, at, lost),
           "update_user_city", uid, city, at, lost)

UpdateNotificationSettings(uid, kw, at, lost) ==
    /\ Reaches(kw, at)
    /\ Commit(update_notification_settings(users, ns, uid, kw, at, lost),
              "update_notification_settings", uid, kw, at, lost)

DeactivateUser(uid, at, lost) ==
    Commit(deactivate_user(users, ns, uid, at, lost),
           "deactivate_user", uid, NULL, at, lost)

GetUser(uid, at) ==
    /\ last' = [op |-> "get_user", uid |-> uid, args |-> NULL,
                fail |-> FailKind(at, FALSE),
                ret |-> get_user(users, ns, uid, at)]
    /\ UNCHANGED <<users, ns, nonRegistry>>

GetUsersForNotification(t, at) ==
    /\ last' = [op |-> "get_users_for_notification", uid |-> 0, args |-> t,
                fail |-> FailKind(at, FALSE),
                ret |-> get_users_for_notification(users, ns, t, at)]
    /\ UNCHANGED <<users, ns, nonRegistry>>

GetAllActiveUsers(at) ==
    /\ last' = [op |-> "get_all_active_users", uid |-> 0, args |-> NULL,
                fail |-> FailKind(at, FALSE),
                ret |-> get_all_active_users(users, ns, at)]
    /\ UNCHANGED <<users, ns, nonRegistry>>

NextRegistry ==
    \/ \E uid \in UserIds, f \in Fails(AddPoints) :
           \E city \in CitiesOf(uid) : AddUser(uid, Alice, city, f[1], f[2])
    \/ \E uid \in Configurers, city \in Cities, f \in Fails(WritePoints) :
           UpdateUserCity(uid, city, f[1], f[2])
    \/ \E uid \in Configurers, kw \in KwargsSet, f \in Fails(SettingsPoints) :
           UpdateNotificationSettings(uid, kw, f[1], f[2])
    \/ \E uid \in UserIds, f \in Fails(WritePoints) :
           DeactivateUser(uid, f[1], f[2])
    \/ \E uid \in UserIds, at \in ReadPoints : GetUser(uid, at)
    \/ \E t \in RegTimes, at \in ReadPoints : GetUsersForNotification(t, at)
    \/ \E at \in ReadPoints : GetAllActiveUsers(at)

SpecRegistry == Init /\ [][NextRegistry]_vars

----------------------------------------------------------------------------
(* Text functions used by the handlers                                     *)

Whitespace == {" ", "\n"}

\* str.strip()
RECURSIVE lstrip(_)
lstrip(s) == IF s # <<>> /\ Head(s) \in Whitespace THEN lstrip(Tail(s)) ELSE s

RECURSIVE rstrip(_)
rstrip(s) ==
    IF s # <<>> /\ s[Len(s)] \in Whitespace
    THEN rstrip(SubSeq(s, 1, Len(s) - 1)) ELSE s

strip(s) == rstrip(lstrip(s))

Digits == {"0","1","2","3","4","5","6","7","8","9"}

\* where the group ([01]?[0-9]|2[0-3]) can end when matched at the start of s
HourEnds(s) ==
    {p \in {1, 2} :
        /\ Len(s) >= p
        /\ \/ p = 2 /\ s[1] \in {"0","1"} /\ s[2] \in Digits
           \/ p = 1 /\ s[1] \in Digits
           \/ p = 2 /\ s[1] = "2" /\ s[2] \in {"0","1","2","3"}}

\* $ matches at the end of the text and before a final newline
AtEnd(s, q) == q = Len(s) \/ (q = Len(s) - 1 /\ s[Len(s)] = "\n")

\* mutant: the format check is left out
re_match_time_any(s) == TRUE

\* re.match(r'^([01]?[0-9]|2[0-3]):[0-5][0-9]$', s)
re_match_time(s) ==
    \E p \in HourEnds(s) :
        /\ Len(s) >= p + 3
        /\ s[p + 1] = ":"
        /\ s[p + 2] \in {"0","1","2","3","4","5"}
        /\ s[p + 3] \in Digits
        /\ AtEnd(s, p + 3)

\* callback.data.split("_")[1]
RECURSIVE UpTo(_, _)
UpTo(s, ch) == IF s = <<>> \/ Head(s) = ch THEN <<>> ELSE <<Head(s)>> \o UpTo(Tail(s), ch)

SplitSecond(data) ==
    LET first == UpTo(data, "_")
    IN  UpTo(SubSeq(data, Len(first) + 2, Len(data)), "_")

\* Python truthiness of an optional text
Truthy(v) == v # NULL /\ v # <<>>

----------------------------------------------------------------------------
(* Chat handlers (weather_bot.py)                                          *)

\* what a handler did: the tables it leaves, the FSM state of the chat and
\* the reply it sent ("none" when an exception ended it)
Handled(c, op, text, r, state, reply, fail) ==
    /\ users' = r.users
    /\ ns' = r.ns
    /\ fsm' = [fsm EXCEPT ![c] = state]
    /\ last' = [op |-> op, uid |-> c, args |-> text, fail |-> fail, ret |-> reply]
    /\ UNCHANGED <<schedVars, gwVars, sysVars>>

Same == [users |-> users, ns |-> ns]

cmd_subscribe(c, display, at, lost, atGet) ==
    LET r    == add_user(users, ns, c, display, NULL, at, lost)
        data == get_user(r.users, r.ns, c, atGet)
        fail == <<FailKind(at, lost), FailKind(atGet, FALSE)>>
    IN  IF r.ret = "Raise"
        THEN Handled(c, "cmd_subscribe", display, r, fsm[c], "none", fail)
        ELSE IF data # <<>> /\ Truthy(data[1].city)
        THEN Handled(c, "cmd_subscribe", display, r, fsm[c], "settings", fail)
        ELSE Handled(c, "cmd_subscribe", display, r, "waiting_for_city",
                     "ask_city", fail)

cmd_unsubscribe(c, at, lost) ==
    LET r    == deactivate_user(users, ns, c, at, lost)
        fail == <<FailKind(at, lost), "none">>
    IN  Handled(c, "cmd_unsubscribe", NULL, r, fsm[c],
                IF r.ret = "Raise" THEN "none"
                ELSE IF r.ret = "True" THEN "unsubscribed" ELSE "error", fail)

\* the buttons that only move the FSM
callback_change_city(c) ==
    Handled(c, "callback_change_city", NULL, Same, "waiting_for_city",
            "ask_city", <<"none", "none">>)

callback_weather_city(c) ==
    Handled(c, "callback_weather_city", NULL, Same, "waiting_for_city",
            "ask_city", <<"none", "none">>)

callback_forecast_city(c) ==
    Handled(c, "callback_forecast_city", NULL, Same, "waiting_for_forecast_city",
            "ask_city", <<"none", "none">>)

callback_set_morning(c) ==
    Handled(c, "callback_set_morning", NULL, Same, "waiting_for_morning_time",
            "ask_time", <<"none", "none">>)

callback_set_evening(c) ==
    Handled(c, "callback_set_evening", NULL, Same, "waiting_for_evening_time",
            "ask_time", <<"none", "none">>)

callback_set_type(c, data, at, lost) ==
    LET r == update_notification_settings(users, ns, c,
                 [weather_type |-> SplitSecond(data)], at, lost)
        fail == <<FailKind(at, lost), "none">>
    IN  /\ Reaches([weather_type |-> NULL], at)
        /\ Handled(c, "callback_set_type", data, r, fsm[c],
                   IF r.ret = "Raise" THEN "none" ELSE "type_changed", fail)

process_city(c, text, atGet, at, lost) ==
    LET city == strip(text)
        data == get_user(users, ns, c, atGet)
        r    == update_notification_settings(users, ns, c, [city |-> city], at, lost)
    IN  /\ fsm[c] = "waiting_for_city"
        /\ Reaches([city |-> NULL], at)
        /\ IF city = <<>>
           THEN /\ at = "none" /\ atGet = "none"
                /\ Handled(c, "process_city", text, Same, fsm[c], "ask_city",
                           <<"none", "none">>)
           ELSE IF data # <<>>
           THEN Handled(c, "process_city", text, r,
                        IF r.ret = "Raise" THEN fsm[c] ELSE "idle",
                        IF r.ret = "Raise" THEN "none" ELSE "settings",
                        <<FailKind(at, lost), FailKind(atGet, FALSE)>>)
           ELSE /\ at = "none"
                /\ Handled(c, "process_city", text, Same, "idle", "weather",
                           <<"none", FailKind(atGet, FALSE)>>)

process_forecast_city(c, text) ==
    /\ fsm[c] = "waiting_for_forecast_city"
    /\ IF strip(text) = <<>>
       THEN Handled(c, "process_forecast_city", text, Same, fsm[c], "ask_city",
                    <<"none", "none">>)
       ELSE Handled(c, "process_forecast_city", text, Same, "idle", "weather",
                    <<"none", "none">>)

\* mutant: the FSM state is cleared before the format is checked
process_time_clears(c, op, state, field, text, at, lost, atGet) ==
    LET time_text == strip(text)
        kw   == IF field = "morning_time" THEN [morning_time |-> time_text]
                ELSE [evening_time |-> time_text]
        r    == update_notification_settings(users, ns, c, kw, at, lost)
        data == get_user(r.users, r.ns, c, atGet)
        fail == <<FailKind(at, lost), FailKind(atGet, FALSE)>>
    IN  /\ fsm[c] = state
        /\ Reaches(kw, at)
        /\ IF ~re_match_time(time_text)
           THEN /\ at = "none" /\ atGet = "none"
                /\ Handled(c, op, text, Same, "idle", "invalid_format",
                           <<"none", "none">>)
           ELSE IF r.ret = "Raise"
           THEN /\ atGet = "none"
                /\ Handled(c, op, text, r, "idle", "none", fail)
           ELSE IF data = <<>>
           THEN Handled(c, op, text, r, "idle", "none", fail)
           ELSE Handled(c, op, text, r, "idle", "settings", fail)

\* process_morning_time and process_evening_time: the same code for the
\* field morning_time, respectively evening_time
process_time(c, op, state, field, text, at, lost, atGet) ==
    LET time_text == strip(text)
        kw   == IF field = "morning_time" THEN [morning_time |-> time_text]
                ELSE [evening_time |-> time_text]
        r    == update_notification_settings(users, ns, c, kw, at, lost)
        data == get_user(r.users, r.ns, c, atGet)
        fail == <<FailKind(at, lost), FailKind(atGet, FALSE)>>
    IN  /\ fsm[c] = state
        /\ Reaches(kw, at)
        /\ IF ~re_match_time(time_text)
           THEN /\ at = "none" /\ atGet = "none"
                /\ Handled(c, op, text, Same, fsm[c], "invalid_format",
                           <<"none", "none">>)
           ELSE IF r.ret = "Raise"
           THEN /\ atGet = "none"
                /\ Handled(c, op, text, r, fsm[c], "none", fail)
           ELSE IF data = <<>>
           THEN Handled(c, op, text, r, fsm[c], "none", fail)
           ELSE Handled(c, op, text, r, "idle", "settings", fail)

process_morning_time(c, text, at, lost, atGet) ==
    process_time(c, "process_morning_time", "waiting_for_morning_time",
                 "morning_time", text, at, lost, atGet)

process_evening_time(c, text, at, lost, atGet) ==
    process_time(c, "process_evening_time", "waiting_for_evening_time",
                 "evening_time", text, at, lost, atGet)

----------------------------------------------------------------------------
(* The bot: chat 1 sends every command, button and text; the registry may  *)
(* already hold the row of another subscriber, left by an earlier run      *)

Chats == {1}
Bystander == MaxUsers

\* the row a subscriber has after /subscribe and a city, as add_user and
\* update_notification_settings leave it
SubscribedRow(uid, display, city) ==
    LET a == add_user(EmptyTable, EmptyTable, uid, display, NULL, "none", FALSE)
    IN  update_notification_settings(a.users, a.ns, uid, [city |-> city],
                                     "none", FALSE)

InitBot ==
    /\ SchedulerIdle
    /\ \/ users = EmptyTable /\ ns = EmptyTable
       \/ /\ users = SubscribedRow(Bystander, Alice, Paris).users
          /\ ns = SubscribedRow(Bystander, Alice, Paris).ns
    /\ fsm = [c \in UserIds |-> "idle"]
    /\ last = NoCall
    /\ GatewayIdle
    /\ MainIdle

T8_05   == <<"8",":","0","5">>
T8_5    == <<"8",":","5">>
T25_61  == <<"2","5",":","6","1">>
T0805sp == <<" ","0","8",":","0","5","\n">>
TimeTexts == {T0805, T8_05, T8_5, T25_61, T0805sp}

CityTexts == {Moscow, <<" ","P","a","r"," ">>, <<" ">>}

type_brief    == <<"t","y","p","e","_","b","r","i","e","f">>
type_detailed == <<"t","y","p","e","_","d","e","t","a","i","l","e","d">>
\* callback data a client can send that no button of the bot carries
type_foo      == <<"t","y","p","e","_","f","o","o">>
TypeData == {type_brief, type_detailed, type_foo}

\* how the write, and the read, of a handler can fail
CityWriteFails == {<<"none", FALSE>>, <<"execute1", FALSE>>, <<"execute1", TRUE>>}
PrefWriteFails == {<<"none", FALSE>>, <<"execute2", FALSE>>, <<"execute2", TRUE>>}
ReadFails == {"none", "execute1"}

NextBot ==
    \E c \in Chats :
        \/ \E d \in Displays, f \in CityWriteFails, g \in ReadFails :
               cmd_subscribe(c, d, f[1], f[2], g)
        \/ \E f \in CityWriteFails : cmd_unsubscribe(c, f[1], f[2])
        \/ callback_change_city(c)
        \/ callback_weather_city(c)
        \/ callback_forecast_city(c)
        \/ callback_set_morning(c)
        \/ callback_set_evening(c)
        \/ \E data \in TypeData, f \in PrefWriteFails :
               callback_set_type(c, data, f[1], f[2])
        \/ \E text \in CityTexts, g \in ReadFails, f \in CityWriteFails :
               process_city(c, text, g, f[1], f[2])
        \/ \E text \in CityTexts : process_forecast_city(c, text)
        \/ \E text \in TimeTexts, f \in PrefWriteFails, g \in ReadFails :
               process_morning_time(c, text, f[1], f[2], g)
        \/ \E text \in TimeTexts, f \in PrefWriteFails, g \in ReadFails :
               process_evening_time(c, text, f[1], f[2], g)

Spec == InitBot /\ [][NextBot]_vars

----------------------------------------------------------------------------
(* Notification scheduler (scheduler.py is not part of the sources; its    *)
(* behaviour is the one section 4.2 of the specification describes: a      *)
(* timer aligned to the minute boundaries, one query of the registry per   *)
(* tick, one delivery per returned subscriber, nothing stored about the    *)
(* deliveries made).                                                       *)

DigitChars == <<"0","1","2","3","4","5","6","7","8","9">>

\* datetime.now().strftime("%H:%M")
nowHHMM(m) ==
    <<DigitChars[((m \div 60) \div 10) + 1], DigitChars[((m \div 60) % 10) + 1],
      ":",
      DigitChars[((m % 60) \div 10) + 1], DigitChars[((m % 60) % 10) + 1]>>

RECURSIVE UserIdsOf(_)
UserIdsOf(rows) ==
    IF rows = <<>> THEN {} ELSE {Head(rows).user_id} \cup UserIdsOf(Tail(rows))

\* main() of a bot process starts its scheduler; the first tick is at the
\* next minute boundary.  Starting a started scheduler does nothing.
start_scheduler(i) ==
    /\ ~running[i]
    /\ running' = [running EXCEPT ![i] = TRUE]
    /\ pending' = [pending EXCEPT ![i] = FALSE]
    /\ UNCHANGED <<users, ns, fsm, last, clock, sent, missed, gwVars, sysVars>>

\* the finally block of main(): the timer is cancelled
stop_scheduler(i) ==
    /\ running[i]
    /\ running' = [running EXCEPT ![i] = FALSE]
    /\ pending' = [pending EXCEPT ![i] = FALSE]
    /\ UNCHANGED <<users, ns, fsm, last, clock, sent, missed, gwVars, sysVars>>

\* one tick of a started scheduler: who is due at the current minute, and
\* one delivery to each of them
Tick(i, at) ==
    LET due == UserIdsOf(get_users_for_notification(users, ns, nowHHMM(clock), at))
    IN  /\ running[i]
        /\ pending[i]
        /\ pending' = [pending EXCEPT ![i] = FALSE]
        /\ sent' = [k \in DOMAIN sent |->
                      IF k[2] = clock /\ k[1] \in due THEN sent[k] + 1 ELSE sent[k]]
        /\ last' = [op |-> "tick", uid |-> i, args |-> nowHHMM(clock),
                    fail |-> FailKind(at, FALSE),
                    ret |-> IF due = {} THEN "False" ELSE "True"]
        /\ UNCHANGED <<users, ns, fsm, clock, running, missed, gwVars, sysVars>>

\* the wall clock reaches the next minute once every started scheduler has
\* made the tick of this one; the timers of the started schedulers fire
ClockAdvance ==
    /\ clock + 1 \in Window
    /\ \A i \in Instances : ~(running[i] /\ pending[i])
    /\ clock' = clock + 1
    /\ pending' = [i \in Instances |-> running[i]]
    /\ missed' = missed \cup
          {k \in DOMAIN sent :
              /\ k[2] = clock
              /\ k[1] \in DOMAIN users
              /\ DueCondition(users, ns, k[1], nowHHMM(clock))
              /\ sent[k] = 0}
    /\ UNCHANGED <<users, ns, fsm, last, running, sent, gwVars, sysVars>>

T0801 == <<"0","8",":","0","1">>
SchedTimes == {T0800, T0801, T2000}

\* the registry after the subscriber set its city and its morning time
ConfiguredRow(U, N, uid, city, t) ==
    LET a == add_user(U, N, uid, Alice, NULL, "none", FALSE)
        b == update_notification_settings(a.users, a.ns, uid,
                                          [city |-> city], "none", FALSE)
    IN  update_notification_settings(b.users, b.ns, uid,
                                     [morning_time |-> t], "none", FALSE)

InitScheduler ==
    \* the first bot process is past start_scheduler in main()
    /\ clock = FirstMinute
    /\ \E t1 \in SchedTimes, two \in BOOLEAN :
         LET one  == ConfiguredRow(EmptyTable, EmptyTable, 1, Moscow, t1)
             both == ConfiguredRow(one.users, one.ns, Bystander, Paris, T0801)
         IN  /\ users = IF two THEN both.users ELSE one.users
             /\ ns = IF two THEN both.ns ELSE one.ns
    /\ fsm = [c \in UserIds |-> "idle"]
    /\ last = NoCall
    /\ running = [i \in Instances |-> i = 1]
    /\ pending = [i \in Instances |-> FALSE]
    /\ sent = [k \in UserIds \X Window |-> 0]
    /\ missed = {}
    /\ GatewayIdle
    /\ MainIdle

\* the registry answers the query of every tick
TickFails == {"none"}

NextScheduler ==
    \/ \E i \in Instances : start_scheduler(i)
    \/ \E i \in Instances : stop_scheduler(i)
    \/ \E i \in Instances, at \in TickFails : Tick(i, at)
    \/ ClockAdvance

SpecScheduler == InitScheduler /\ [][NextScheduler]_vars

\* the mutating calls, none of them failing, with the clock advancing
\* between them
StampKwargs ==
    {[morning_time |-> T2000], [send_evening |-> TRUE],
     [weather_type |-> detailed], [city |-> Paris, evening_time |-> T0800]}

NextStamps ==
    \/ \E uid \in UserIds, city \in {NULL, Moscow} :
           AddUser(uid, Alice, city, "none", FALSE)
    \/ \E uid \in Configurers, city \in Cities :
           UpdateUserCity(uid, city, "none", FALSE)
    \/ \E uid \in Configurers, kw \in StampKwargs :
           UpdateNotificationSettings(uid, kw, "none", FALSE)
    \/ \E uid \in Configurers : DeactivateUser(uid, "none", FALSE)
    \/ ClockAdvance

SpecStamps == Init /\ [][NextStamps]_vars

----------------------------------------------------------------------------
(* Weather Gateway (weather_functions.py)                                  *)

\* what a request to wttr.in can come to
Outcomes == {"ok", "network_error", "http_404", "not_json", "missing_fields",
             "non_numeric", "wrong_type"}

\* _make_request: the response, or None on a RequestException (a timeout
\* after REQUEST_TIMEOUT included) and on a status other than 200
make_request(outcome) ==
    IF outcome \in {"network_error", "http_404"} THEN "None" ELSE "response"

\* the exception the body of the response raises while fn reads it:
\* response.json() raises JSONDecodeError (a ValueError) on a body that is
\* not JSON; a missing key or list element raises KeyError / IndexError;
\* float() / int() of a text that is no number raises ValueError (there is
\* no conversion in get_weather_data_dict); subscripting or .get on a value
\* of another type (a list or null where an object is expected) raises
\* TypeError / AttributeError
BodyException(fn, outcome) ==
    CASE outcome = "ok" -> "none"
      [] outcome = "not_json" -> "ValueError"
      [] outcome = "missing_fields" -> "KeyError"
      [] outcome = "non_numeric" ->
             IF fn = "get_weather_data_dict" THEN "none" ELSE "ValueError"
      [] outcome = "wrong_type" -> "TypeError"
      [] OTHER -> "none"

\* the except clause of each function
Caught(fn) ==
    CASE fn = "get_weather_json" -> {"KeyError", "IndexError", "ValueError"}
      [] fn = "get_detailed_weather" -> {"KeyError", "IndexError"}
      [] fn = "get_weather_data_dict" ->
             {"KeyError", "IndexError", "ValueError", "TypeError"}

\* get_weather_json and get_detailed_weather: the rendered weather, the
\* could-not-retrieve message for the city, the processing-error message,
\* or the exception that leaves the function
Render(fn, outcome) ==
    IF make_request(outcome) = "None" THEN "not_retrieved"
    ELSE IF BodyException(fn, outcome) = "none" THEN "weather"
    ELSE IF BodyException(fn, outcome) \in Caught(fn) THEN "processing_error"
    ELSE "Raise"

get_weather_json(outcome) == Render("get_weather_json", outcome)

get_detailed_weather(outcome) == Render("get_detailed_weather", outcome)

\* the dictionary for the advisory, or {} ("empty")
get_weather_data_dict(outcome) ==
    IF make_request(outcome) = "None" THEN "empty"
    ELSE IF BodyException("get_weather_data_dict", outcome) = "none" THEN "data"
    ELSE IF BodyException("get_weather_data_dict", outcome)
               \in Caught("get_weather_data_dict") THEN "empty"
    ELSE "Raise"

----------------------------------------------------------------------------
(* Weather requests: /weather, /forecast, /my_weather and the advisory     *)
(* task each of them starts.  All coroutines run on the one thread of the  *)
(* event loop; a step below is the code between two awaits.  The gateway   *)
(* functions call requests.get synchronously: from StartLookup /          *)
(* AdvisoryStart until GatewayReturns the thread stays inside the call.    *)

\* handlers whose gateway call is inside try/except Exception
Guarded == {"cmd_weather", "cmd_forecast"}

Say(r, kind) == out' = Append(out, [r |-> r, kind |-> kind])

\* the user of chat r sends the command
Receive(r, cmd, arg) ==
    /\ req[r].hpc = "none"
    /\ req' = [req EXCEPT ![r] = [NoRequest EXCEPT !.cmd = cmd, !.city = arg,
                                                   !.hpc = "queued"]]
    /\ UNCHANGED <<users, ns, fsm, last, schedVars, sysVars, lookup, out>>

\* cmd_weather / cmd_forecast up to send_chat_action: the city is the text
\* after the command
cmd_weather(r, fn) ==
    /\ IF strip(req[r].city) = <<>>
       THEN /\ Say(r, "usage")
            /\ req' = [req EXCEPT ![r].hpc = "done"]
       ELSE /\ req' = [req EXCEPT ![r].city = strip(req[r].city), ![r].fn = fn,
                                  ![r].hpc = "typing"]
            /\ UNCHANGED out
    /\ UNCHANGED <<users, ns, fsm, last, schedVars, sysVars, lookup>>

\* cmd_my_weather up to send_chat_action: city and report type are the
\* stored ones
cmd_my_weather(r, atGet) ==
    LET data == get_user(users, ns, r, atGet)
    IN  /\ IF data = <<>> \/ ~Truthy(data[1].city)
           THEN /\ Say(r, "no_city")
                /\ req' = [req EXCEPT ![r].hpc = "done"]
           ELSE /\ req' = [req EXCEPT ![r].city = data[1].city,
                              ![r].fn = IF data[1].weather_type = detailed
                                        THEN "get_detailed_weather"
                                        ELSE "get_weather_json",
                              ![r].hpc = "typing"]
                /\ UNCHANGED out
        /\ UNCHANGED <<users, ns, fsm, last, schedVars, sysVars, lookup>>

\* the dispatcher starts the handler of a received command
Dispatch(r, atGet) ==
    /\ lookup = <<>>
    /\ req[r].hpc = "queued"
    /\ CASE req[r].cmd = "cmd_weather" ->
                atGet = "none" /\ cmd_weather(r, "get_weather_json")
         [] req[r].cmd = "cmd_forecast" ->
                atGet = "none" /\ cmd_weather(r, "get_detailed_weather")
         [] req[r].cmd = "cmd_my_weather" -> cmd_my_weather(r, atGet)

\* await bot.send_chat_action(chat, "typing"): when it returned the handler
\* calls the gateway function; when it raised, the exception leaves the
\* handler (the call stands before the try of cmd_weather / cmd_forecast,
\* and cmd_my_weather has no try)
StartLookup(r, ok) ==
    /\ lookup = <<>>
    /\ req[r].hpc = "typing"
    /\ IF ok
       THEN /\ req' = [req EXCEPT ![r].hpc = "lookup", ![r].typing = "ok"]
            /\ lookup' = <<r, "handler">>
       ELSE /\ req' = [req EXCEPT ![r].hpc = "done", ![r].typing = "failed"]
            /\ UNCHANGED lookup
    /\ UNCHANGED <<users, ns, fsm, last, schedVars, sysVars, out>>

\* requests.get returns (or times out) and the gateway function with it
GatewayReturns(outcome) ==
    /\ lookup # <<>>
    /\ lookup' = <<>>
    /\ LET r == lookup[1]
       IN  IF lookup[2] = "handler"
           THEN LET res == Render(req[r].fn, outcome)
                IN  req' = [req EXCEPT
                                 ![r].info = res,
                                 ![r].hpc = IF res # "Raise" THEN "answer"
                                            ELSE IF req[r].cmd \in Guarded
                                                 THEN "error_answer"
                                            ELSE "done"]
           ELSE LET res == get_weather_data_dict(outcome)
                IN  req' = [req EXCEPT
                                 ![r].data = res,
                                 ![r].apc = IF res = "data" THEN "advise"
                                            ELSE "done"]
    /\ UNCHANGED <<users, ns, fsm, last, schedVars, sysVars, out>>

\* mutant: the advisory task is created before the weather message is sent
AnswerWeather_TaskFirst(r, ok) ==
    /\ lookup = <<>>
    /\ req[r].hpc = "answer"
    /\ IF ok THEN Say(r, req[r].info) ELSE UNCHANGED out
    /\ req' = [req EXCEPT ![r].apc = "ready",
                          ![r].hpc = IF ok THEN "done"
                                     ELSE IF req[r].cmd \in Guarded
                                          THEN "error_answer"
                                     ELSE "done"]
    /\ UNCHANGED <<users, ns, fsm, last, schedVars, sysVars, lookup>>

\* await message.answer(weather_info), then
\* asyncio.create_task(_send_ai_recommendations(chat, city)); a send that
\* fails raises before the task is created
AnswerWeather(r, ok) ==
    /\ lookup = <<>>
    /\ req[r].hpc = "answer"
    /\ IF ok
       THEN /\ Say(r, req[r].info)
            /\ req' = [req EXCEPT ![r].hpc = "done", ![r].apc = "ready"]
       ELSE /\ UNCHANGED out
            /\ req' = [req EXCEPT ![r].hpc = IF req[r].cmd \in Guarded
                                             THEN "error_answer" ELSE "done"]
    /\ UNCHANGED <<users, ns, fsm, last, schedVars, sysVars, lookup>>

\* the except branch of cmd_weather / cmd_forecast
AnswerError(r, ok) ==
    /\ lookup = <<>>
    /\ req[r].hpc = "error_answer"
    /\ IF ok THEN Say(r, "error") ELSE UNCHANGED out
    /\ req' = [req EXCEPT ![r].hpc = "done"]
    /\ UNCHANGED <<users, ns, fsm, last, schedVars, sysVars, lookup>>

\* _send_ai_recommendations starts: get_weather_data_dict(city)
AdvisoryStart(r) ==
    /\ lookup = <<>>
    /\ req[r].apc = "ready"
    /\ req' = [req EXCEPT ![r].apc = "lookup"]
    /\ lookup' = <<r, "advisory">>
    /\ UNCHANGED <<users, ns, fsm, last, schedVars, sysVars, out>>

\* what a call of the generator meets: no GEMINI_API_KEY, genai.Client(...)
\* raising, generate_content raising, an answer without text, an answer
GenOutcomes == {"no_key", "client_error", "api_error", "empty", "text"}

\* mutant: an error of generate_content leaves the function
get_weather_recommendations_uncaught(g) ==
    IF g \in {"client_error", "api_error"} THEN "Raise"
    ELSE IF g = "text" THEN "text"
    ELSE ""

\* get_weather_recommendations: _get_client() is called before the try, the
\* request and the reading of response.text inside it
get_weather_recommendations(g) ==
    IF g = "client_error" THEN "Raise"
    ELSE IF g = "no_key" THEN ""
    ELSE IF g = "api_error" THEN ""
    ELSE IF g = "empty" THEN ""
    ELSE "text"

\* get_weather_recommendations_async returns from the executor, with the
\* text, with "" or with the exception of the call; the except branch of
\* _send_ai_recommendations logs the exception and the task ends
AdvisoryGenerated(r, g) ==
    LET res == get_weather_recommendations(g)
    IN  /\ lookup = <<>>
        /\ req[r].apc = "advise"
        /\ req' = [req EXCEPT ![r].gen = g, ![r].rec = res,
                              ![r].apc = IF res = "text" THEN "send" ELSE "done"]
        /\ UNCHANGED <<users, ns, fsm, last, schedVars, sysVars, lookup, out>>

\* bot.send_message with the recommendations; its failure is logged
AdvisorySent(r, ok) ==
    /\ lookup = <<>>
    /\ req[r].apc = "send"
    /\ IF ok THEN Say(r, "advisory") ELSE UNCHANGED out
    /\ req' = [req EXCEPT ![r].apc = "done"]
    /\ UNCHANGED <<users, ns, fsm, last, schedVars, sysVars, lookup>>

\* chat 1 is a subscriber with a city, the other chats have no row
InitGateway ==
    /\ SchedulerIdle
    /\ \E wt \in {brief, detailed} :
         LET a == SubscribedRow(1, Alice, Moscow)
             b == update_notification_settings(a.users, a.ns, 1,
                      [weather_type |-> wt], "none", FALSE)
         IN  users = b.users /\ ns = b.ns
    /\ fsm = [c \in UserIds |-> "idle"]
    /\ last = NoCall
    /\ GatewayIdle
    /\ MainIdle

Commands == {"cmd_weather", "cmd_forecast", "cmd_my_weather"}
CommandArgs == {<<>>, Paris}

NextGateway ==
    \/ \E r \in Requests, cmd \in Commands, arg \in CommandArgs :
           Receive(r, cmd, arg)
    \/ \E r \in Requests, g \in ReadFails : Dispatch(r, g)
    \/ \E r \in Requests, ok \in BOOLEAN : StartLookup(r, ok)
    \/ \E outcome \in Outcomes : GatewayReturns(outcome)
    \/ \E r \in Requests, ok \in BOOLEAN : AnswerWeather(r, ok)
    \/ \E r \in Requests, ok \in BOOLEAN : AnswerError(r, ok)
    \/ \E r \in Requests : AdvisoryStart(r)
    \/ \E r \in Requests, g \in GenOutcomes : AdvisoryGenerated(r, g)
    \/ \E r \in Requests, ok \in BOOLEAN : AdvisorySent(r, ok)

SpecGateway == InitGateway /\ [][NextGateway]_vars

----------------------------------------------------------------------------
(* The bot process: the imports of run_bot.py, run_bot_with_server and     *)
(* main() of weather_bot.py, up to the exit of the process.  The           *)
(* coroutines and the registry calls they make run on the one thread of    *)
(* the event loop: while a registry call holds its connection (proc.call)  *)
(* no coroutine makes a step.                                              *)

PoolMax == 10

\* connection_pool.getconn(): PoolError when closed or exhausted
get_connection(P) ==
    IF P.state # "open" \/ P.used >= PoolMax
    THEN [pool |-> P, ok |-> FALSE]
    ELSE [pool |-> [P EXCEPT !.used = @ + 1], ok |-> TRUE]

\* connection_pool.putconn(conn): PoolError when the pool is closed
return_connection(P) ==
    IF P.state = "open" THEN [P EXCEPT !.used = @ - 1] ELSE P

\* init_database: the finally block calls cursor.close() before
\* return_connection(conn); when conn.cursor() raised, cursor is unbound, the
\* finally block raises at cursor.close() and the connection stays checked out
init_database(P, at) ==
    LET g == get_connection(P)
    IN  IF at = "getconn" \/ ~g.ok THEN [pool |-> P, ret |-> "Raise"]
        ELSE IF at = "cursor" THEN [pool |-> g.pool, ret |-> "Raise"]
        ELSE [pool |-> return_connection(g.pool),
              ret |-> IF at = "none" THEN "None" ELSE "Raise"]

\* mutant: the constructor does not look at DATABASE_URL
UserDatabase_init_unchecked(db, at) == init_database(PoolOpen, at)

\* UserDatabase.__init__: ValueError without DATABASE_URL, else the pool is
\* created and init_database runs
UserDatabase_init(db, at) ==
    IF ~db THEN [pool |-> [state |-> "none", used |-> 0], ret |-> "Raise"]
    ELSE init_database(PoolOpen, at)

InitPoints == FailPoints

Exit(p, status) == [p EXCEPT !.pc = "exited", !.exit = status]

\* what the process leaves alone, its scheduler and its pool aside
mainFrame == <<users, ns, fsm, last, clock, sent, missed, gwVars, genai>>

\* "from database import db" (weather_bot.py, imported by run_bot.py): an
\* exception of the constructor ends the interpreter with status 1
ImportDatabase(at) ==
    LET r == UserDatabase_init(proc.db, at)
    IN  /\ proc.pc = "import"
        /\ ~proc.db => at = "none"
        /\ pool' = r.pool
        /\ proc' = IF r.ret = "Raise" THEN Exit(proc, "1")
                   ELSE [proc EXCEPT !.pc = "bot"]
        /\ UNCHANGED <<running, pending, mainFrame>>

\* bot = Bot(token=BOT_TOKEN): the token is validated by the constructor
CreateBot ==
    /\ proc.pc = "bot"
    /\ proc' = IF ~proc.token THEN Exit(proc, "1")
               ELSE [proc EXCEPT !.pc = "entry"]
    /\ UNCHANGED <<running, pending, pool, mainFrame>>

\* run_bot.py __main__: if not BOT_TOKEN: sys.exit(1)
EntryCheck ==
    /\ proc.pc = "entry"
    /\ proc' = IF ~proc.token THEN Exit(proc, "1")
               ELSE [proc EXCEPT !.pc = "server"]
    /\ UNCHANGED <<running, pending, pool, mainFrame>>

\* run_bot_with_server: start_web_server(); its exception is printed and
\* the process exits with status 1
StartWebServer(ok) ==
    /\ proc.pc = "server"
    /\ proc' = IF ok THEN [proc EXCEPT !.pc = "sleep"] ELSE Exit(proc, "1")
    /\ UNCHANGED <<running, pending, pool, mainFrame>>

\* await asyncio.sleep(10), then main() installs the signal handlers
StartupDelay ==
    /\ proc.pc = "sleep"
    /\ proc' = [proc EXCEPT !.pc = "main"]
    /\ UNCHANGED <<running, pending, pool, mainFrame>>

\* await start_scheduler(bot); an exception goes to "except Exception" of
\* main(), which prints it, and then to the finally block
MainStartScheduler(ok) ==
    /\ proc.pc = "main"
    /\ IF ok
       THEN /\ running' = [running EXCEPT ![1] = TRUE]
            /\ proc' = [proc EXCEPT !.pc = "polling"]
       ELSE /\ UNCHANGED running
            /\ proc' = [proc EXCEPT !.pc = "stop_scheduler"]
    /\ UNCHANGED <<pending, pool, mainFrame>>

\* polling_task = asyncio.create_task(_start_polling_with_retry()), then
\* asyncio.wait([polling_task, shutdown_event.wait()], FIRST_COMPLETED)
StartPolling ==
    /\ proc.pc = "polling"
    /\ proc' = [proc EXCEPT !.pc = "wait", !.polling = "running"]
    /\ UNCHANGED <<running, pending, pool, mainFrame>>

\* SIGINT / SIGTERM: signal_handler sets shutdown_event
Signal ==
    /\ proc.pc \in {"polling", "wait"}
    /\ ~proc.signalled
    /\ proc' = [proc EXCEPT !.signalled = TRUE]
    /\ UNCHANGED <<running, pending, pool, mainFrame>>

\* dp.start_polling returns, or raises and _start_polling_with_retry raises
\* again: the task is done, with or without an exception
PollingEnds(err) ==
    /\ proc.pc = "wait"
    /\ proc.call = "none"
    /\ proc.polling = "running"
    /\ proc' = [proc EXCEPT !.polling = IF err THEN "failed" ELSE "ended"]
    /\ UNCHANGED <<running, pending, pool, mainFrame>>

\* asyncio.wait returns; the pending task is cancelled.  The result of a
\* done polling task is never read.
MainWakes ==
    /\ proc.pc = "wait"
    /\ proc.call = "none"
    /\ proc.signalled \/ proc.polling \in {"ended", "failed"}
    /\ proc' = [proc EXCEPT !.pc = "stop_scheduler",
                            !.polling = IF @ = "running" THEN "cancelled" ELSE @]
    /\ UNCHANGED <<running, pending, pool, mainFrame>>

Stopping == {"stop_scheduler", "close_pool", "close_session", "return"}

\* a handler task, or the tick of the started scheduler for the current
\* minute, enters a registry operation: conn = self.get_connection()
BeginCall(who, at) ==
    LET g == get_connection(pool)
    IN  /\ proc.pc \in {"wait"} \cup Stopping
        /\ proc.call = "none"
        /\ who = "tick" => running[1] /\ pending[1]
        /\ pending' = IF who = "tick" THEN [pending EXCEPT ![1] = FALSE]
                      ELSE pending
        /\ IF at = "getconn" \/ ~g.ok
           THEN /\ UNCHANGED pool
                /\ proc' = [proc EXCEPT
                              !.late = @ \/ (who = "tick" /\ proc.cleanup # <<>>)]
           ELSE /\ pool' = g.pool
                /\ proc' = [proc EXCEPT
                              !.call = "registry",
                              !.late = @ \/ (who = "tick" /\ proc.cleanup # <<>>)]
        /\ UNCHANGED <<running, mainFrame>>

\* the operation ends: finally: if conn: self.return_connection(conn)
EndCall ==
    /\ proc.call = "registry"
    /\ pool' = return_connection(pool)
    /\ proc' = [proc EXCEPT !.call = "none"]
    /\ UNCHANGED <<running, pending, mainFrame>>

\* finally of main(): await stop_scheduler()
MainStopScheduler ==
    /\ proc.pc = "stop_scheduler"
    /\ proc.call = "none"
    /\ running' = [running EXCEPT ![1] = FALSE]
    /\ pending' = [pending EXCEPT ![1] = FALSE]
    /\ proc' = [proc EXCEPT !.pc = "close_pool",
                            !.cleanup = Append(@, "scheduler")]
    /\ UNCHANGED <<pool, mainFrame>>

\* mutant: the pool is closed from outside the event loop's thread
close_all_connections_offloop ==
    /\ proc.pc = "close_pool"
    /\ pool' = [pool EXCEPT !.state = "closed"]
    /\ proc' = [proc EXCEPT !.pc = "close_session",
                            !.cleanup = Append(@, "pool")]
    /\ UNCHANGED <<running, pending, mainFrame>>

\* finally of main(): db.close_all_connections()
close_all_connections ==
    /\ proc.pc = "close_pool"
    /\ proc.call = "none"
    /\ pool' = [pool EXCEPT !.state = "closed"]
    /\ proc' = [proc EXCEPT !.pc = "close_session",
                            !.cleanup = Append(@, "pool")]
    /\ UNCHANGED <<running, pending, mainFrame>>

\* finally of main(): await bot.session.close()
CloseSession ==
    /\ proc.pc = "close_session"
    /\ proc.call = "none"
    /\ proc' = [proc EXCEPT !.pc = "return",
                            !.cleanup = Append(@, "session")]
    /\ UNCHANGED <<running, pending, pool, mainFrame>>

\* main() returns, run_bot_with_server stops the web server, asyncio.run
\* returns and the interpreter exits with status 0
MainReturns ==
    /\ proc.pc = "return"
    /\ proc.call = "none"
    /\ proc' = Exit(proc, "0")
    /\ UNCHANGED <<running, pending, pool, mainFrame>>

\* python run_bot.py, with or without DATABASE_URL and BOT_TOKEN
InitMain ==
    /\ SchedulerIdle
    /\ users = EmptyTable
    /\ ns = EmptyTable
    /\ fsm = [c \in UserIds |-> "idle"]
    /\ last = NoCall
    /\ GatewayIdle
    /\ \E db \in BOOLEAN, token \in BOOLEAN : proc = NoProcess(db, token)
    /\ pool = [state |-> "none", used |-> 0]
    /\ genai = NoClient(TRUE)

NextMain ==
    \/ \E at \in InitPoints : ImportDatabase(at)
    \/ CreateBot
    \/ EntryCheck
    \/ \E ok \in BOOLEAN : StartWebServer(ok)
    \/ StartupDelay
    \/ \E ok \in BOOLEAN : MainStartScheduler(ok)
    \/ StartPolling
    \/ Signal
    \/ \E err \in BOOLEAN : PollingEnds(err)
    \/ MainWakes
    \/ \E who \in {"handler", "tick"}, at \in {"none", "getconn"} :
           BeginCall(who, at)
    \/ EndCall
    \/ MainStopScheduler
    \/ close_all_connections
    \/ CloseSession
    \/ MainReturns
    \/ ClockAdvance

SpecMain == InitMain /\ [][NextMain]_vars

----------------------------------------------------------------------------
(* The advisory client (ai_recommendations.py).  Each advisory request     *)
(* runs get_weather_recommendations on a thread of the loop's default      *)
(* executor (run_in_executor(None, ...)); _get_client reads and writes the *)
(* module global _client without a lock.  Clients are numbered in the      *)
(* order of their construction, 0 is None.                                 *)

\* what the advisory threads leave alone
aiFrame == <<users, ns, fsm, last, schedVars, gwVars, proc, pool>>

\* run_in_executor hands a request to thread t, which calls _get_client()
Submit(t) ==
    /\ genai.thr[t].pc = "idle"
    /\ genai' = [genai EXCEPT !.thr[t] = [pc |-> "check", local |-> 0, used |-> 0]]
    /\ UNCHANGED aiFrame

\* if _client is None: api_key = os.getenv(...); if not api_key: return None
ClientCheck(t) ==
    /\ genai.thr[t].pc = "check"
    /\ genai' = [genai EXCEPT !.thr[t].pc =
                     IF genai.client # 0 THEN "return"
                     ELSE IF ~genai.key THEN "idle"
                     ELSE "construct"]
    /\ UNCHANGED aiFrame

\* genai.Client(api_key=api_key): a new client, or an exception that leaves
\* get_weather_recommendations
ClientConstruct(t, ok) ==
    /\ genai.thr[t].pc = "construct"
    /\ genai' = IF ok
                THEN [genai EXCEPT !.built = @ + 1,
                                   !.thr[t].local = genai.built + 1,
                                   !.thr[t].pc = "assign"]
                ELSE [genai EXCEPT !.thr[t].pc = "idle"]
    /\ UNCHANGED aiFrame

\* _client = <the new client>
ClientAssign(t) ==
    /\ genai.thr[t].pc = "assign"
    /\ genai' = [genai EXCEPT !.client = genai.thr[t].local,
                              !.thr[t].pc = "return"]
    /\ UNCHANGED aiFrame

\* return _client: the global is read again
ClientReturn(t) ==
    /\ genai.thr[t].pc = "return"
    /\ genai' = [genai EXCEPT !.thr[t].used = genai.client,
                              !.thr[t].pc = "generate"]
    /\ UNCHANGED aiFrame

\* client.models.generate_content(...) returns or raises; the thread is
\* free for the next request
Generate(t) ==
    /\ genai.thr[t].pc = "generate"
    /\ genai' = [genai EXCEPT !.thr[t].pc = "idle"]
    /\ UNCHANGED aiFrame

\* the bot serves; GEMINI_API_KEY is set or not
InitAdvisory ==
    /\ SchedulerIdle
    /\ users = EmptyTable
    /\ ns = EmptyTable
    /\ fsm = [c \in UserIds |-> "idle"]
    /\ last = NoCall
    /\ GatewayIdle
    /\ proc = Serving
    /\ pool = PoolOpen
    /\ \E key \in BOOLEAN : genai = NoClient(key)

NextAdvisory ==
    \E t \in Threads :
        \/ Submit(t)
        \/ ClientCheck(t)
        \/ \E ok \in BOOLEAN : ClientConstruct(t, ok)
        \/ ClientAssign(t)
        \/ ClientReturn(t)
        \/ Generate(t)

SpecAdvisory == InitAdvisory /\ [][NextAdvisory]_vars

----------------------------------------------------------------------------
(* Claims about the registry                                               *)

\* the user ids of a list of joined rows, and how often one occurs in it
Ids(rows) == {rows[i].user_id : i \in 1..Len(rows)}
Count(rows, uid) == Cardinality({i \in 1..Len(rows) : rows[i].user_id = uid})

\* a time slot of uid is enabled and set to t
SlotMatches(uid, t) ==
    /\ uid \in DOMAIN ns
    /\ \/ ns[uid].send_morning /\ ns[uid].morning_time = t
       \/ ns[uid].send_evening /\ ns[uid].evening_time = t

\* notification-eligible at t, as the data model states it
Eligible(uid, t) ==
    /\ uid \in DOMAIN users
    /\ users[uid].is_active
    /\ users[uid].city # NULL
    /\ SlotMatches(uid, t)

\* every value of now the checks ask the due-query about
NowTimes == {T0800, T2000, T0805}

\* C1: every subscriber returned by get_users_for_notification(now) is active
\* and has a city; an inactive subscriber, or one whose city is NULL, is not
\* returned even when one of its enabled times equals now.
C1_DueOnlyActiveWithCity ==
    last.op = "get_users_for_notification" =>
        /\ \A i \in 1..Len(last.ret) :
               /\ last.ret[i].is_active = TRUE
               /\ last.ret[i].city # NULL
        /\ \A uid \in DOMAIN users :
               (~users[uid].is_active \/ users[uid].city = NULL)
                   => uid \notin Ids(last.ret)

\* the query returned somebody while an inactive subscriber with a city had
\* an enabled time equal to now
C1_Witness ==
    /\ last.op = "get_users_for_notification"
    /\ Len(last.ret) > 0
    /\ \E uid \in DOMAIN users :
           /\ ~users[uid].is_active
           /\ users[uid].city # NULL
           /\ SlotMatches(uid, last.args)

\* C2: get_users_for_notification(now) contains every subscriber at most
\* once, and exactly once when both of its slots are enabled and equal now.
C2_DueAtMostOnce ==
    last.op = "get_users_for_notification" =>
        \A uid \in UserIds :
            /\ Count(last.ret, uid) <= 1
            /\ ( /\ last.fail = "none"
                 /\ uid \in DOMAIN users /\ uid \in DOMAIN ns
                 /\ users[uid].is_active /\ users[uid].city # NULL
                 /\ ns[uid].send_morning /\ ns[uid].morning_time = last.args
                 /\ ns[uid].send_evening /\ ns[uid].evening_time = last.args )
               => Count(last.ret, uid) = 1

\* the query ran for a subscriber whose two slots are both enabled and both
\* equal to now
C2_Witness ==
    /\ last.op = "get_users_for_notification"
    /\ last.fail = "none"
    /\ \E uid \in DOMAIN users :
           /\ Eligible(uid, last.args)
           /\ ns[uid].send_morning /\ ns[uid].morning_time = last.args
           /\ ns[uid].send_evening /\ ns[uid].evening_time = last.args
           /\ Count(last.ret, uid) = 1

\* C4: when the storage layer does not fail, get_users_for_notification(now)
\* returns every subscriber that is eligible at now.
C4_DueComplete ==
    (last.op = "get_users_for_notification" /\ last.fail = "none") =>
        \A uid \in UserIds : Eligible(uid, last.args) => uid \in Ids(last.ret)

\* two subscribers were returned, one of them eligible by its evening slot only
C4_Witness ==
    /\ last.op = "get_users_for_notification"
    /\ last.fail = "none"
    /\ Len(last.ret) = 2
    /\ \E uid \in DOMAIN users :
           /\ Eligible(uid, last.args)
           /\ ~(ns[uid].send_morning /\ ns[uid].morning_time = last.args)

\* C6: after deactivate_user(id) returned True, get_all_active_users() and
\* get_users_for_notification(now), for every now, exclude id, and get_user(id)
\* returns the row with is_active = FALSE and the city and preferences it had.
C6_DeactivateExcludes ==
    [][ (last'.op = "deactivate_user" /\ last'.ret = "True") =>
          LET id == last'.uid IN
            /\ id \in DOMAIN users
            /\ id \notin Ids(get_all_active_users(users', ns', "none"))
            /\ \A t \in NowTimes :
                   id \notin Ids(get_users_for_notification(users', ns', t, "none"))
            /\ get_user(users', ns', id, "none")
                 = <<[JoinRow(users, ns, id) EXCEPT !.is_active = FALSE]>>
      ]_vars

\* a subscriber that was deactivated still has a city and an enabled slot
C6_Witness ==
    /\ last.op = "deactivate_user"
    /\ last.ret = "True"
    /\ users[last.uid].city # NULL
    /\ \E t \in NowTimes : SlotMatches(last.uid, t)

\* C7: add_user(id, ...) without a city for an id that has no row, followed by
\* get_user(id), gives city NULL, morning_time 08:00, evening_time 20:00,
\* send_morning TRUE, send_evening FALSE, weather_type brief, is_active TRUE.
C7_UpsertDefaults ==
    [][ ( /\ last'.op = "add_user" /\ last'.ret = "True"
          /\ last'.args.city = NULL
          /\ last'.uid \notin DOMAIN users ) =>
          LET got == get_user(users', ns', last'.uid, "none") IN
            /\ Len(got) = 1
            /\ got[1].user_id = last'.uid
            /\ got[1].display = last'.args.display
            /\ got[1].city = NULL
            /\ got[1].is_active = TRUE
            /\ got[1].morning_time = <<"0","8",":","0","0">>
            /\ got[1].evening_time = <<"2","0",":","0","0">>
            /\ got[1].send_morning = TRUE
            /\ got[1].send_evening = FALSE
            /\ got[1].weather_type = <<"b","r","i","e","f">>
      ]_vars

\* a first add_user without a city has succeeded
C7_Witness ==
    /\ last.op = "add_user"
    /\ last.ret = "True"
    /\ last.args.city = NULL
    /\ users[last.uid].city = NULL
    /\ ns[last.uid].send_evening = FALSE

----------------------------------------------------------------------------
(* Claims about the chat handlers                                          *)

\* C5: /subscribe for a subscriber that already has a row changes only the
\* display fields: the stored city and every notification preference are the
\* same after the command as before it.
C5_ResubscribeKeepsCity ==
    [][ (last'.op = "cmd_subscribe" /\ last'.uid \in DOMAIN users) =>
          /\ users'[last'.uid].city = users[last'.uid].city
          /\ ns'[last'.uid] = ns[last'.uid]
      ]_vars

\* the texts of the language ^([01]?[0-9]|2[0-3]):[0-5][0-9]$, read from the
\* end: two minute digits, a colon, and an hour of one or two digits
HourTexts ==
    {<<d>> : d \in Digits}
    \cup {<<a, b>> : a \in {"0","1"}, b \in Digits}
    \cup {<<"2", b>> : b \in {"0","1","2","3"}}

IsTimeText(t) ==
    /\ Len(t) \in {4, 5}
    /\ t[Len(t)] \in Digits
    /\ t[Len(t) - 1] \in {"0","1","2","3","4","5"}
    /\ t[Len(t) - 2] = ":"
    /\ SubSeq(t, 1, Len(t) - 3) \in HourTexts

\* C8: in every state reached through the chat commands, every stored
\* morning_time and evening_time matches ^([01]?[0-9]|2[0-3]):[0-5][0-9]$.
C8_StoredTimesMatch ==
    \A uid \in DOMAIN ns :
        /\ IsTimeText(ns[uid].morning_time)
        /\ IsTimeText(ns[uid].evening_time)

\* both times of a subscriber were set from the chat, after which a text
\* that is no time was sent
C8_Witness ==
    /\ last.op \in {"process_morning_time", "process_evening_time"}
    /\ last.ret = "invalid_format"
    /\ last.uid \in DOMAIN ns
    /\ ns[last.uid].morning_time # <<"0","8",":","0","0">>
    /\ ns[last.uid].evening_time # <<"2","0",":","0","0">>

\* C9: for a subscriber with a row that is asked for its morning (evening)
\* time, a text that fails the format check changes nothing in the registry
\* and leaves the chat waiting for the time; a text that passes it is, when
\* the registry calls of the handler succeed, stored as entered (trimmed of
\* surrounding whitespace), returned by get_user, and the chat is idle again.
C9_TimeInputPersistedIffValid ==
    [][ ( /\ last'.op \in {"process_morning_time", "process_evening_time"}
          /\ last'.uid \in DOMAIN users ) =>
          LET c     == last'.uid
              text  == last'.args
              field == IF last'.op = "process_morning_time"
                       THEN "morning_time" ELSE "evening_time"
              state == IF last'.op = "process_morning_time"
                       THEN "waiting_for_morning_time"
                       ELSE "waiting_for_evening_time"
          IN  /\ fsm[c] = state
              /\ IF ~IsTimeText(strip(text))
                 THEN /\ users' = users
                      /\ ns' = ns
                      /\ fsm'[c] = state
                 ELSE last'.fail = <<"none", "none">> =>
                      /\ ns'[c][field] = strip(text)
                      /\ (Head(text) \notin Whitespace /\ text[Len(text)] \notin Whitespace)
                            => ns'[c][field] = text
                      /\ get_user(users', ns', c, "none")[1][field] = ns'[c][field]
                      /\ fsm'[c] = "idle"
                      /\ users' = users
                      /\ \A k \in (DOMAIN ns[c]) \ {field} : ns'[c][k] = ns[c][k]
                      /\ \A uid \in (DOMAIN ns) \ {c} : ns'[uid] = ns[uid]
      ]_vars

\* "8:5" was refused while the chat waits for the morning time, and the
\* "08:05" accepted before is still what is stored
C9_Witness ==
    /\ last.op = "process_morning_time"
    /\ last.args = <<"8",":","5">>
    /\ last.ret = "invalid_format"
    /\ fsm[last.uid] = "waiting_for_morning_time"
    /\ last.uid \in DOMAIN ns
    /\ ns[last.uid].morning_time = <<"0","8",":","0","5">>

----------------------------------------------------------------------------
(* Claims about the scheduler                                              *)

\* C3: whatever the ticks, stops and starts of the schedulers (also of two
\* bot processes alive at once), no subscriber gets more than one scheduled
\* delivery for the same minute, and, with a scheduler started (again), no
\* delivery that was due is lost.
C3_ExactlyOncePerMinute ==
    /\ \A k \in DOMAIN sent : sent[k] <= 1
    /\ (\E i \in Instances : running[i]) => missed = {}

----------------------------------------------------------------------------
(* Claims about the registry: failures, frame, referential integrity,      *)
(* timestamps                                                              *)

ReadOps  == {"get_user", "get_users_for_notification", "get_all_active_users"}
WriteOps == {"add_user", "update_user_city", "update_notification_settings",
             "deactivate_user"}

\* C11: a registry operation during which the storage layer fails (at any
\* step, getting the connection included) returns its failure indicator
\* (False, None or the empty list) and does not raise; a failed mutating
\* operation leaves both tables as they were.
C11_FailureNeverRaises ==
    [][ (last'.op \in ReadOps \cup WriteOps /\ last'.fail # "none") =>
          IF last'.op \in ReadOps
          THEN last'.ret = <<>>
          ELSE /\ last'.ret = "False"
               /\ users' = users
               /\ ns' = ns
      ]_vars

\* C13: a successful update_notification_settings changes, for the given
\* id, exactly the fields city, morning_time, evening_time, send_morning,
\* send_evening, weather_type that its argument names; other keys are
\* ignored; the fields not named, is_active and the display fields, and the
\* rows of every other subscriber stay as they were.
C13_SettingsFrame ==
    [][ (last'.op = "update_notification_settings" /\ last'.ret = "True") =>
          LET id == last'.uid
              kw == last'.args
          IN  /\ DOMAIN users' = DOMAIN users
              /\ DOMAIN ns' = DOMAIN ns
              /\ \A u \in (DOMAIN users) \ {id} : users'[u] = users[u]
              /\ \A u \in (DOMAIN ns) \ {id} : ns'[u] = ns[u]
              /\ id \in DOMAIN users =>
                   /\ users'[id].is_active = users[id].is_active
                   /\ users'[id].display = users[id].display
                   /\ users'[id].city = IF "city" \in DOMAIN kw THEN kw["city"]
                                        ELSE users[id].city
              /\ id \in DOMAIN ns =>
                   \A k \in {"morning_time", "evening_time", "send_morning",
                             "send_evening", "weather_type"} :
                       ns'[id][k] = IF k \in DOMAIN kw THEN kw[k] ELSE ns[id][k]
      ]_vars

\* a call naming is_active and timezone succeeded on a deactivated
\* subscriber, which is still deactivated
C13_Witness ==
    /\ last.op = "update_notification_settings"
    /\ last.ret = "True"
    /\ "is_active" \in DOMAIN last.args
    /\ last.uid \in DOMAIN users
    /\ ~users[last.uid].is_active
    /\ \E u \in DOMAIN users : u # last.uid

\* C15: in every state, also after add_user failed between its two INSERTs,
\* every users row has its notification_settings row (one, user_id being the
\* key) and no notification_settings row is without its users row.
C15_OneSettingsRowPerUser ==
    DOMAIN users = DOMAIN ns

\* add_user failed for an id without a row while another subscriber exists
C15_Witness ==
    /\ last.op = "add_user"
    /\ last.fail # "none"
    /\ last.uid \notin DOMAIN users
    /\ last.uid \notin DOMAIN ns
    /\ DOMAIN ns # {}

\* C16: every successful mutation of a subscriber (add_user,
\* update_user_city, deactivate_user, update_notification_settings with any
\* fields) leaves the subscriber's updated_at at the time of the call.
C16_UpdatedAtBumped ==
    [][ ( /\ last'.op \in WriteOps
          /\ last'.ret = "True"
          /\ last'.uid \in DOMAIN users' ) =>
          users'[last'.uid].updated_at = clock
      ]_vars

----------------------------------------------------------------------------
(* Claims about the chat handlers: failed writes, report type              *)

\* C12: when the registry write of an interactive flow returns False
\* (add_user in /subscribe, update_notification_settings when the city, the
\* morning time, the evening time or the report type is set), the reply is a
\* failure response: not the settings / success message, and not no reply.
C12_FailedWriteReported ==
    [][ ( /\ last'.op \in {"cmd_subscribe", "process_city", "callback_set_type",
                           "process_morning_time", "process_evening_time"}
          /\ last'.fail[1] = "error" ) =>
          last'.ret = "error"
      ]_vars

\* C14: in every state reached through the chat, whatever callback data
\* starting with "type_" the report-type handler received, every stored
\* weather_type is brief or detailed.
C14_WeatherTypeEnum ==
    \A uid \in DOMAIN ns :
        ns[uid].weather_type \in {<<"b","r","i","e","f">>,
                                  <<"d","e","t","a","i","l","e","d">>}

----------------------------------------------------------------------------
(* Claims about the weather requests                                       *)

\* the replies that carry the result of the gateway function
WeatherKinds == {"weather", "not_retrieved", "processing_error"}

AdvisoryOf(r) == {i \in 1..Len(out) : out[i].r = r /\ out[i].kind = "advisory"}
WeatherOf(r)  == {i \in 1..Len(out) : out[i].r = r /\ out[i].kind \in WeatherKinds}

\* C17: when the gateway lookup made to render the weather of a request
\* fails, the reply is the could-not-retrieve message and no advisory is
\* attempted for the request: no advisory task is started, no advisory
\* message is sent.
C17_NoAdvisoryAfterFailedLookup ==
    \A r \in Requests :
        req[r].info = "not_retrieved" =>
            /\ req[r].apc = "none"
            /\ AdvisoryOf(r) = {}

\* C18: get_weather_json, get_detailed_weather and get_weather_data_dict
\* return an error text or an empty result for every outcome of the
\* gateway request and never raise.
C18_FetchNeverRaises ==
    \A r \in Requests : req[r].info # "Raise" /\ req[r].data # "Raise"

\* C19: while a gateway lookup is outstanding, the other work that is ready
\* can go on: a received command is dispatched, a rendered weather message
\* is sent, a created advisory task starts.
C19_LookupDoesNotBlock ==
    lookup # <<>> =>
        \A r \in Requests :
            /\ req[r].hpc = "queued" =>
                   ENABLED (\E g \in ReadFails : Dispatch(r, g))
            /\ req[r].apc = "ready" => ENABLED AdvisoryStart(r)
            /\ req[r].apc = "send" =>
                   ENABLED (\E ok \in BOOLEAN : AdvisorySent(r, ok))

\* C20: within one request the advisory message is never sent before the
\* weather message, and the advisory task exists only once the weather
\* message has been sent, so that nothing the advisory does comes before it.
C20_AdvisoryAfterWeather ==
    \A r \in Requests :
        /\ \A i \in AdvisoryOf(r) : \E j \in WeatherOf(r) : j < i
        /\ req[r].apc # "none" => WeatherOf(r) # {}

\* one request got its weather message and then its advisory, another got
\* its weather message and its advisory task ended without a message
C20_Witness ==
    \E r1, r2 \in Requests :
        /\ r1 # r2
        /\ AdvisoryOf(r1) # {}
        /\ WeatherOf(r2) # {}
        /\ req[r2].apc = "done"
        /\ AdvisoryOf(r2) = {}

----------------------------------------------------------------------------
(* Claims about the set-city flow, deactivation and accepted times         *)

\* C25: a text received in waiting_for_city changes the stored city exactly
\* when the state was entered by the set-city flow (/subscribe without a city,
\* or the change_city button); a city entered after the weather_city button
\* only produces a weather reply and never changes the stored city.
C25_QuickLookupKeepsCity ==
    [][ (last'.op = "process_city" /\ last.uid = last'.uid) =>
          /\ last.op = "callback_weather_city" =>
                 /\ users' = users
                 /\ last'.ret \in {"weather", "ask_city"}
          /\ ( /\ last.op = "callback_change_city"
               /\ last'.uid \in DOMAIN users
               /\ strip(last'.args) # <<>>
               /\ last'.fail = <<"none", "none">> ) =>
                 users'[last'.uid].city = strip(last'.args)
      ]_vars

DayMinutes == 0 .. (24 * 60 - 1)

\* C27: every stored time is the zero-padded HH:MM rendering of a minute of
\* the day, so some tick value nowHHMM equals it.
C27_StoredTimeIsSomeTick ==
    \A uid \in DOMAIN ns :
        /\ \E m \in DayMinutes : nowHHMM(m) = ns[uid].morning_time
        /\ \E m \in DayMinutes : nowHHMM(m) = ns[uid].evening_time

----------------------------------------------------------------------------
(* Claims about the advisory path and the typing indicator                 *)

\* C21: get_weather_recommendations returns "" when no credential is
\* configured, when the upstream call fails and when the answer is empty; and
\* an advisory task whose weather refetch or generator (the creation of its
\* client included) failed ends without having sent a message.
C21_AdvisoryFailsSilently ==
    \A r \in Requests :
        /\ req[r].gen \in {"no_key", "api_error", "empty"} => req[r].rec = ""
        /\ (req[r].data = "empty" \/ req[r].rec \in {"", "Raise"}) =>
               /\ AdvisoryOf(r) = {}
               /\ req[r].apc = "done"

\* one advisory task ended after the upstream call failed, another after the
\* creation of the client raised, and both chats got their weather message
C21_Witness ==
    \E r1, r2 \in Requests :
        /\ req[r1].gen = "api_error" /\ req[r1].apc = "done"
        /\ req[r2].gen = "client_error" /\ req[r2].apc = "done"
        /\ WeatherOf(r1) # {} /\ WeatherOf(r2) # {}

\* C24: a failure of the typing-indicator call is ignored: the handler still
\* fetches the weather.
C24_TypingFailureIgnored ==
    \A r \in Requests :
        (req[r].typing = "failed" /\ req[r].hpc = "done") => req[r].info # "none"

----------------------------------------------------------------------------
(* Claims about startup, shutdown and the connection pool                  *)

Cleanup == <<"scheduler", "pool", "session">>

IsPrefix(a, b) == Len(a) <= Len(b) /\ a = SubSeq(b, 1, Len(a))

\* C22: on shutdown the scheduler is stopped first (no tick starts
\* afterwards), then the pool of the registry is closed, then the session of
\* the bot; and when the pool is closed no registry call is in progress: no
\* connection is checked out.
C22_ShutdownOrder ==
    [][ /\ IsPrefix(proc'.cleanup, Cleanup)
        /\ ~proc'.late
        /\ (pool.state = "open" /\ pool'.state = "closed") =>
              /\ proc.call = "none"
              /\ pool.used = 0
              /\ ~running[1]
      ]_vars

\* after a shutdown signal the polling task was cancelled and the three
\* cleanup steps have run
C22_Witness ==
    /\ proc.signalled
    /\ proc.polling = "cancelled"
    /\ proc.cleanup = Cleanup
    /\ pool.state = "closed"

\* C23: without the connection string of the registry, or without the bot
\* token, the process never reaches its running state: no scheduler is
\* started, no polling begins, and the exit status is not 0.
C23_MissingConfigNeverRuns ==
    (~proc.db \/ ~proc.token) =>
        /\ proc.pc \in {"import", "bot", "entry", "exited"}
        /\ ~running[1]
        /\ proc.polling = "none"
        /\ proc.cleanup = <<>>
        /\ proc.pc = "exited" => proc.exit = "1"

\* a process started with a token and without the connection string of
\* the registry has exited
C23_Witness ==
    /\ proc.pc = "exited"
    /\ proc.exit = "1"
    /\ ~proc.db
    /\ proc.token

\* C28: on every path out of main() after the start of the scheduler was
\* attempted, each cleanup step has run exactly once; and a process whose
\* polling ended with an error does not exit with status 0.
C28_CleanupOnceAndErrorStatus ==
    proc.pc = "exited" =>
        /\ proc.exit = "0" => proc.cleanup = Cleanup
        /\ proc.cleanup # <<>> => proc.cleanup = Cleanup
        /\ proc.polling = "failed" => proc.exit # "0"

\* C30: every registry operation returns the connection it took, on success
\* and on every failure path: outside an operation no connection is checked
\* out, and the pool of PoolMax connections is never exhausted.
C30_ConnectionsReturned ==
    /\ proc.call = "none" => pool.used = 0
    /\ pool.used < PoolMax

\* C29: the advisory client is a single instance per process: under every
\* interleaving of the executor threads it is constructed at most once, and
\* every request uses the same instance.
C29_SingleClient ==
    /\ genai.built <= 1
    /\ \A t1, t2 \in Threads :
          (genai.thr[t1].used # 0 /\ genai.thr[t2].used # 0) =>
              genai.thr[t1].used = genai.thr[t2].used

====
